---------------------------- MODULE Spec2Model ----------------------------
(***************************************************************************)
(* Model of the regression harness src/test/test.py: the image comparator, *)
(* the usdchecker output classifier, the results documents, and the two    *)
(* entry points (baseline generation and pytest verification).             *)
(*                                                                         *)
(* Text is modelled as a sequence of tokens: a token is an atomic chunk of *)
(* characters ("\n", "Total time:", ".fbx", ...), so that find, split,     *)
(* endswith, substring tests and concatenation work as on Python strings.  *)
(* A path is a sequence of segments, each segment a text.                  *)
(***************************************************************************)
EXTENDS Integers, Sequences, FiniteSets, TLC

VARIABLES
    \* ---- run_usdchecker taken alone (specification SpecChecker)
    stdout_str,            \* the validator's standard output
    stderr_str,            \* the validator's standard error
    results_doc,           \* the text of results_file, or NoFile
    result,                \* the DiagnosticResult returned, or NoResult
    \* ---- compare_images_with_similarity_threshold (specification SpecCompare)
    img1, img2,            \* cv2.imread of the two paths (an image or NoImage)
    similarity_threshold,  \* <<numerator, denominator>>
    verdict,               \* the comparator's outcome, or NoVerdict
    \* ---- the harness (specification Spec)
    fs,                    \* the file system: path -> content
    entry,                 \* how the run was started, with its arguments
    pc,                    \* the position of the run
    todo,                  \* what is left to process at this position
    log                    \* what the run has done so far (history)

vars == <<stdout_str, stderr_str, results_doc, result,
          img1, img2, similarity_threshold, verdict,
          fs, entry, pc, todo, log>>

checkerVars == <<stdout_str, stderr_str, results_doc, result>>
compareVars == <<img1, img2, similarity_threshold, verdict>>
harnessVars == <<fs, entry, pc, todo, log>>

-----------------------------------------------------------------------------
(* Bounds *)

MaxOutLen == 4      \* tokens in a validator standard output
MaxPixels == 2      \* pixels (height * width) of an enumerated image
MaxRuns == 2        \* runs of an entry point in one behaviour

-----------------------------------------------------------------------------
(* Text helpers (Python str / list operations) *)

NL == "\n"
CR == "\r"

SeqsUpTo(S, n) == UNION {[1..k -> S] : k \in 0..n}

\* str.find(tok, start) on tokens, 1-based; 0 stands for Python's -1
Find(s, tok, start) ==
    LET hits == {i \in start..Len(s) : s[i] = tok}
    IN  IF hits = {} THEN 0 ELSE CHOOSE i \in hits : \A j \in hits : i <= j

\* s[i:] with i 0-based in Python, i.e. the tokens from position i+1 on
From(s, i) == SubSeq(s, i, Len(s))

\* sub in s (contiguous)
Contains(s, sub) ==
    \E i \in 0..(Len(s) - Len(sub)) : SubSeq(s, i + 1, i + Len(sub)) = sub

\* s.endswith(suffix)
EndsWith(s, suffix) ==
    /\ Len(suffix) <= Len(s)
    /\ SubSeq(s, Len(s) - Len(suffix) + 1, Len(s)) = suffix

\* s.split(sep): always at least one piece; a trailing sep gives a last ""
RECURSIVE SplitOn(_, _)
SplitOn(s, sep) ==
    IF Find(s, sep, 1) = 0 THEN <<s>>
    ELSE <<SubSeq(s, 1, Find(s, sep, 1) - 1)>>
         \o SplitOn(From(s, Find(s, sep, 1) + 1), sep)

Split(s) == SplitOn(s, NL)

InList(x, l) == \E i \in 1..Len(l) : l[i] = x

\* the last n elements of a sequence (all of it when shorter)
LastN(s, n) == IF Len(s) <= n THEN s ELSE SubSeq(s, Len(s) - n + 1, Len(s))

\* sep.join(parts)
RECURSIVE Join(_, _)
Join(parts, sep) ==
    IF Len(parts) = 0 THEN <<>>
    ELSE IF Len(parts) = 1 THEN parts[1]
    ELSE parts[1] \o <<sep>> \o Join(Tail(parts), sep)

-----------------------------------------------------------------------------
(* run_usdchecker: the classification of the validator's output *)

TotalTime == "Total time:"
WriteLayer == "Write layer via Sdf API:"
UpAxisMsg == "Stage does not specify an upAxis."
MetersMsg == "Stage does not specify its linear scale in metersPerUnit."
SuccessTok == "Success!"
FailedTok == "Failed!"

ignorable_errors == <<UpAxisMsg, MetersMsg>>

filter_out_strings ==
    << <<>>, <<SuccessTok, CR>>, <<FailedTok, CR>>, <<SuccessTok>>, <<FailedTok>> >>

\* lines 94-104: where parsing starts
TruncateStdoutWriteLayerFirst(out) ==
    LET write_layer_index == Find(out, WriteLayer, 1)
        total_time_index == Find(out, TotalTime, 1)
        idx == IF write_layer_index # 0 THEN write_layer_index ELSE total_time_index
        nl == IF idx = 0 THEN 0 ELSE Find(out, NL, idx)
    IN  IF nl # 0 THEN From(out, nl + 1) ELSE out

TruncateStdout(out) ==
    LET total_time_index == Find(out, TotalTime, 1)
    IN  IF total_time_index # 0
        THEN LET newline_after_total_time == Find(out, NL, total_time_index)
             IN  IF newline_after_total_time # 0
                 THEN From(out, newline_after_total_time + 1)
                 ELSE out
        ELSE LET write_layer_index == Find(out, WriteLayer, 1)
             IN  IF write_layer_index # 0
                 THEN LET newline_after_write_layer == Find(out, NL, write_layer_index)
                      IN  IF newline_after_write_layer # 0
                          THEN From(out, newline_after_write_layer + 1)
                          ELSE out
                 ELSE out

\* line 117: all(ignorable not in err for ignorable in ignorable_errors)
IsNonIgnorableWithoutFilter(err) == TRUE

IsNonIgnorable(err) ==
    \A i \in 1..Len(ignorable_errors) : ~Contains(err, <<ignorable_errors[i]>>)

\* line 114, on the text left after the truncation
KeptLines(text) ==
    SelectSeq(Split(text), LAMBDA l : ~InList(l, filter_out_strings))

ErrorLines(out, err) == KeptLines(TruncateStdout(out) \o err)

\* lines 119-126: the last three segments of the path, joined with "/"
TruncatedFilename(file) == Join(LastN(file, 3), "/")

\* lines 127-132, with pass taken over every kept line instead of the
\* non-ignorable ones
ResultOfPassOverAllLines(truncated_filename, errors, non_ignorable_errors) ==
    [filename |-> truncated_filename,
     pass     |-> \A i \in 1..Len(errors) :
                      \/ errors[i] = <<SuccessTok, CR>>
                      \/ errors[i] = <<>>,
     warnings |-> SelectSeq(errors,
                      LAMBDA e : ~InList(e, non_ignorable_errors) /\ e # <<>>),
     errors   |-> non_ignorable_errors]

\* lines 127-132
ResultOf(truncated_filename, errors, non_ignorable_errors) ==
    [filename |-> truncated_filename,
     pass     |-> \A i \in 1..Len(non_ignorable_errors) :
                      \/ non_ignorable_errors[i] = <<SuccessTok, CR>>
                      \/ non_ignorable_errors[i] = <<>>,
     warnings |-> SelectSeq(errors,
                      LAMBDA e : ~InList(e, non_ignorable_errors) /\ e # <<>>),
     errors   |-> non_ignorable_errors]

\* line 117
NonIgnorableErrors(errors) == SelectSeq(errors, IsNonIgnorable)

Classified(truncated_filename, errors) ==
    ResultOf(truncated_filename, errors, NonIgnorableErrors(errors))

\* lines 93-132: the result run_usdchecker builds
DiagnosticResult(file, out, err) ==
    Classified(TruncatedFilename(file), ErrorLines(out, err))


-----------------------------------------------------------------------------
(* compare_images_with_similarity_threshold, lines 29-62                    *)
(* An image is what cv2.imread returns: a height x width x channels array   *)
(* (imread's default flag always gives 3 channels), or None (NoImage).      *)

Channels == 1..3

Positions(shape) == (1..shape[1]) \X (1..shape[2]) \X (1..shape[3])

NoImage == [readable |-> FALSE, shape |-> <<0, 0, 0>>, data |-> <<>>]

Image(shape, data) == [readable |-> TRUE, shape |-> shape, data |-> data]

UniformImage(shape, v) == Image(shape, [p \in Positions(shape) |-> v])

RECURSIVE GCD(_, _)
GCD(a, b) == IF b = 0 THEN a ELSE GCD(b, a % b)

\* a/b >= c/d for b, d > 0 (the division of line 59 and the test of line 62,
\* on exact fractions; the common factor is divided out before multiplying)
RatioGeq(a, b, c, d) ==
    LET g == GCD(b, d)
    IN  a * (d \div g) >= c * (b \div g)

DefaultThreshold == <<95, 100>>

\* cv2.absdiff
absdiff(a, b) ==
    [p \in Positions(a.shape) |->
        IF a.data[p] >= b.data[p] THEN a.data[p] - b.data[p]
        ELSE b.data[p] - a.data[p]]

\* cv2.threshold(difference, 0, 255, cv2.THRESH_BINARY)
threshold_binary(d) == [p \in DOMAIN d |-> IF d[p] > 0 THEN 255 ELSE 0]

\* line 58
total_pixels_without_channels(img) == img.shape[1] * img.shape[2]

total_pixels(img) == img.shape[1] * img.shape[2] * img.shape[3]

NoVerdict == [outcome |-> "none", pass |-> FALSE,
              similar_pixels |-> 0, total_pixels |-> 0]

\* outcome: "ValueError" (raised), "mismatch" (return False at line 50),
\* "compared" (the return of line 62)
\* line 57: np.count_nonzero(binary_difference == 0)
count_zero(binary_difference) ==
    Cardinality({p \in DOMAIN binary_difference : binary_difference[p] = 0})

\* lines 59-62
Ratio(similar, total, thr) ==
    [outcome |-> "compared",
     pass |-> RatioGeq(similar, total, thr[1], thr[2]),
     similar_pixels |-> similar,
     total_pixels |-> total]

CompareImages(a, b, thr) ==
    IF ~a.readable \/ ~b.readable
    THEN [NoVerdict EXCEPT !.outcome = "ValueError"]
    ELSE IF a.shape # b.shape
    THEN [NoVerdict EXCEPT !.outcome = "mismatch"]
    ELSE Ratio(count_zero(threshold_binary(absdiff(a, b))), total_pixels(a), thr)

\* what the caller sees: True exactly for a comparison that passed
ComparePasses(v) == v.outcome = "compared" /\ v.pass

-----------------------------------------------------------------------------
(* The results document: json.dump(list, indent=4), json.load, json.loads   *)
(* A document is a sequence of lines; a line is [t |-> its shape, v |-> the *)
(* text it carries].                                                        *)

NoFile == [exists |-> FALSE, lines |-> <<>>]
FileOf(lines) == [exists |-> TRUE, lines |-> lines]

Line(t, v) == [t |-> t, v |-> v]

BoolText(b) == IF b THEN <<"true">> ELSE <<"false">>

\* a list of strings under key k; last: no comma follows the closing bracket
DumpStrings(k, items, last) ==
    IF Len(items) = 0
    THEN <<Line(k \o (IF last THEN ": []" ELSE ": [],"), <<>>)>>
    ELSE <<Line(k \o ": [", <<>>)>>
         \o [i \in 1..Len(items) |->
                Line(IF i = Len(items) THEN "item" ELSE "item,", items[i])]
         \o <<Line(IF last THEN "]" ELSE "],", <<>>)>>

DumpResult(r, last) ==
    <<Line("{", <<>>),
      Line("filename:", r.filename),
      Line("pass:", BoolText(r.pass))>>
    \o DumpStrings("warnings", r.warnings, FALSE)
    \o DumpStrings("errors", r.errors, TRUE)
    \o <<Line(IF last THEN "}" ELSE "},", <<>>)>>

RECURSIVE DumpResults(_, _)
DumpResults(rs, i) ==
    IF i > Len(rs) THEN <<>>
    ELSE DumpResult(rs[i], i = Len(rs)) \o DumpResults(rs, i + 1)

\* json.dump(existing_results, f, indent=4)
JsonDump(rs) ==
    IF Len(rs) = 0 THEN <<Line("[]", <<>>)>>
    ELSE <<Line("[", <<>>)>> \o DumpResults(rs, 1) \o <<Line("]", <<>>)>>

ParseError == [ok |-> FALSE, value |-> <<>>, next |-> 0]

Shape(lines, p) == IF p <= Len(lines) THEN lines[p].t ELSE "eof"

\* the items of a list of strings opened at line p - 1
RECURSIVE ParseItems(_, _, _)
ParseItems(lines, p, acc) ==
    IF Shape(lines, p) = "item,"
    THEN ParseItems(lines, p + 1, Append(acc, lines[p].v))
    ELSE IF Shape(lines, p) = "item"
    THEN [ok |-> TRUE, value |-> Append(acc, lines[p].v), next |-> p + 1]
    ELSE ParseError

\* the closing bracket after the items
ClosedItems(lines, items, last) ==
    IF items.ok /\ Shape(lines, items.next) = (IF last THEN "]" ELSE "],")
    THEN [items EXCEPT !.next = items.next + 1]
    ELSE ParseError

\* a list of strings under key k starting at line p
ParseStrings(lines, p, k, last) ==
    IF Shape(lines, p) = k \o (IF last THEN ": []" ELSE ": [],")
    THEN [ok |-> TRUE, value |-> <<>>, next |-> p + 1]
    ELSE IF Shape(lines, p) = k \o ": ["
    THEN ClosedItems(lines, ParseItems(lines, p + 1, <<>>), last)
    ELSE ParseError

NoRecord == [ok |-> FALSE, value |-> <<>>, next |-> 0, more |-> FALSE]

ParsedRecord(lines, p, w, e) ==
    IF e.ok /\ Shape(lines, e.next) \in {"}", "},"}
    THEN [ok |-> TRUE,
          value |-> [filename |-> lines[p + 1].v,
                     pass     |-> lines[p + 2].v = <<"true">>,
                     warnings |-> w.value,
                     errors   |-> e.value],
          next |-> e.next + 1,
          more |-> Shape(lines, e.next) = "},"]
    ELSE NoRecord

ParseErrorsAfter(lines, p, w) ==
    ParsedRecord(lines, p, w,
                 IF w.ok THEN ParseStrings(lines, w.next, "errors", TRUE)
                 ELSE ParseError)

\* one record starting at line p (its "{")
ParseResult(lines, p) ==
    IF /\ Shape(lines, p) = "{"
       /\ Shape(lines, p + 1) = "filename:"
       /\ Shape(lines, p + 2) = "pass:"
    THEN ParseErrorsAfter(lines, p, ParseStrings(lines, p + 3, "warnings", FALSE))
    ELSE NoRecord

RECURSIVE ParseResults(_, _, _)
ParseNext(lines, r, acc) ==
    IF ~r.ok THEN ParseError
    ELSE IF r.more THEN ParseResults(lines, r.next, Append(acc, r.value))
    ELSE IF Shape(lines, r.next) = "]" /\ r.next = Len(lines)
    THEN [ok |-> TRUE, value |-> Append(acc, r.value), next |-> r.next + 1]
    ELSE ParseError

ParseResults(lines, p, acc) == ParseNext(lines, ParseResult(lines, p), acc)

\* json.load(f) of a whole document
JsonLoad(lines) ==
    IF Len(lines) = 1 /\ lines[1].t = "[]"
    THEN [ok |-> TRUE, value |-> <<>>, next |-> 2]
    ELSE IF Shape(lines, 1) = "["
    THEN ParseResults(lines, 2, <<>>)
    ELSE ParseError

\* json.loads(line.strip()) of one line taken alone: only a line that is a
\* complete JSON value decodes (an empty list, a string with no comma after it)
\* (a record written on one line would decode too; json.dump with indent=4
\* never writes one)
JsonLoadsLine(l) == l.t \in {"[]", "item", "record"}

\* a document no JSON parser accepts
CorruptLines == <<Line("garbage", <<>>)>>

\* lines 134-142: read existing results, append new result, write back
\* lines 135-139: a missing or undecodable document counts as empty
LoadedOrEmpty(loaded) == IF loaded.ok THEN loaded.value ELSE <<>>

ExistingResults(doc) ==
    LoadedOrEmpty(IF doc.exists THEN JsonLoad(doc.lines) ELSE ParseError)

AppendResult(doc, r) == FileOf(JsonDump(Append(ExistingResults(doc), r)))


-----------------------------------------------------------------------------
(* Paths, file names and the file system                                    *)

Seg(name) == <<name>>

DIRECTORY == <<Seg("repo"), Seg("test")>>
ASSET_PATH == DIRECTORY \o <<Seg("assets")>>
RENDER_OUTPUT_FORMAT == <<".jpg">>
BASELINE_FOLDERNAME == Seg("baseline")
OUTPUT_FOLDERNAME == Seg("output")
CONVERTED_SUFFIX == <<"_roundtrip">>
USDCHECKED_SUFFIX == <<"_usdchecked", ".usd">>
RESULTS_NAME == <<"usd_checker_results", ".json">>

\* platform.system()
PLATFORM == Seg("Linux")

\* tokens that start with a dot: where os.path.splitext can split
DotTokens == {".fbx", ".gltf", ".glb", ".obj", ".ply", ".usd", ".stl",
              ".jpg", ".json", ".txt", ".zip"}

LastDot(name) ==
    LET dots == {i \in 1..Len(name) : name[i] \in DotTokens}
    IN  IF dots = {} THEN 0 ELSE CHOOSE i \in dots : \A j \in dots : j <= i

\* os.path.splitext(name)[0] and [1]
Stem(name) == IF LastDot(name) = 0 THEN name ELSE SubSeq(name, 1, LastDot(name) - 1)
Ext(name) == IF LastDot(name) = 0 THEN <<>> ELSE From(name, LastDot(name))

\* os.path.basename, os.path.dirname
Basename(path) == path[Len(path)]
Dirname(path) == SubSeq(path, 1, Len(path) - 1)

IsUnder(path, root) ==
    /\ Len(path) > Len(root)
    /\ SubSeq(path, 1, Len(root)) = root

\* os.path.relpath(folder, start) for a folder at or under start; the "."
\* Python gives for the folder itself is the empty sequence here (joining
\* it names the same file)
Relpath(folder, start) == From(folder, Len(start) + 1)

\* os.path.join(folder, filename) where filename is an absolute path: the
\* folder is dropped (lines 327 and 332 are handed full paths)
JoinAbsolute(folder, filename) == filename

\* the string of an absolute path
PathStr(path) == <<"/">> \o Join(path, "/")

\* file contents: one record shape for every kind of file
\*   asset/usd: openable (Usd.Stage.Open succeeds), img (what usdrecord
\*              renders from it, NoImage when it renders nothing), out/err
\*              (what usdchecker prints about it)
\*   image:     img;   doc: lines;   other, zip: nothing looked at
Content(kind, openable, img, out, err, lines) ==
    [kind |-> kind, openable |-> openable, img |-> img,
     out |-> out, err |-> err, lines |-> lines]

AssetFile(openable, img, out, err) == Content("asset", openable, img, out, err, <<>>)
ImageFile(img) == Content("image", FALSE, img, <<>>, <<>>, <<>>)
DocFile(lines) == Content("doc", FALSE, NoImage, <<>>, <<>>, lines)
OtherFile(kind) == Content(kind, FALSE, NoImage, <<>>, <<>>, <<>>)

Exists(f, path) == path \in DOMAIN f

Put(f, path, content) ==
    [p \in DOMAIN f \cup {path} |-> IF p = path THEN content ELSE f[p]]

Remove(f, path) == [p \in DOMAIN f \ {path} |-> f[p]]

\* os.path.exists + os.remove of lines 231-232 and 278-279
KeepResultsFile(f, path) == f

RemoveIfExists(f, path) == IF Exists(f, path) THEN Remove(f, path) ELSE f

\* the file as run_usdchecker's open() sees it
DocAt(f, path) == IF Exists(f, path) THEN FileOf(f[path].lines) ELSE NoFile

\* the files os.walk(folder) yields
Walk(f, folder) == {p \in DOMAIN f : IsUnder(p, folder)}

-----------------------------------------------------------------------------
(* The external tools, each deterministic in the file it is given           *)

\* Usd.Stage.Open(input_path)
StageOpens(f, path) == Exists(f, path) /\ f[path].openable

\* what stage.GetRootLayer().Export(converted_path) writes
Exported(f, path) ==
    Content("usd", TRUE, f[path].img, f[path].out, f[path].err, <<>>)

\* usdchecker's standard output and standard error
UsdcheckerOut(f, path) == IF Exists(f, path) THEN f[path].out ELSE <<>>
UsdcheckerErr(f, path) == IF Exists(f, path) THEN f[path].err ELSE <<"x", NL>>

\* cv2.imread(path)
Imread(f, path) ==
    IF Exists(f, path) /\ f[path].kind = "image" THEN f[path].img ELSE NoImage

-----------------------------------------------------------------------------
(* The operations of the harness on a world w = [fs, log]                   *)

EmptyLog ==
    [renders |-> {}, compares |-> {}, converts |-> {}, selected |-> {},
     checks |-> <<>>, removed |-> {}, verdicts |-> {}, events |-> <<>>,
     history |-> <<>>]

\* render(file, outputfile), lines 65-74: os.system runs usdrecord; its exit
\* status is not looked at
Render(w, file, outputfile) ==
    [w EXCEPT
        !.fs = IF Exists(@, file) /\ @[file].img.readable
               THEN Put(@, outputfile, ImageFile(@[file].img))
               ELSE @,
        !.log.renders = @ \cup {[src |-> file, out |-> outputfile]}]

\* convert(input_path, converted_path), lines 146-159
ConvertReturns(w, input_path) == StageOpens(w.fs, input_path)

Convert(w, input_path, converted_path, caller) ==
    [w EXCEPT
        !.fs = IF StageOpens(@, input_path)
               THEN Put(@, converted_path, Exported(@, input_path))
               ELSE @,
        !.log.converts = @ \cup {[src |-> input_path, dst |-> converted_path,
                                  ok |-> StageOpens(w.fs, input_path),
                                  caller |-> caller]}]

\* run_usdchecker(file, results_file), lines 77-143
UsdcheckerResult(w, file) ==
    DiagnosticResult(file, UsdcheckerOut(w.fs, file), UsdcheckerErr(w.fs, file))

Recorded(w, plugin_name, file, results_file, r) ==
    [fs |-> Put(w.fs, results_file,
                DocFile(AppendResult(DocAt(w.fs, results_file), r).lines)),
     log |-> [w.log EXCEPT !.checks =
                Append(@, [plugin |-> plugin_name, file |-> file, result |-> r])]]

RunUsdcheckerOn(w, plugin_name, file, results_file) ==
    Recorded(w, plugin_name, file, results_file, UsdcheckerResult(w, file))

\* the DiagnosticResult the last run_usdchecker returned
LastResult(w) == w.log.checks[Len(w.log.checks)].result

\* the comparison of lines 191 and 206, with the default threshold
CompareLogged(w, plugin_name, test_file, test_type, first, second) ==
    [w EXCEPT !.log.compares =
        @ \cup {[plugin |-> plugin_name, file |-> test_file, test_type |-> test_type,
                 first |-> first, second |-> second]}]

CompareAt(w, first, second) ==
    CompareImages(Imread(w.fs, first), Imread(w.fs, second), DefaultThreshold)

\* lines 173-185
InputFolder(plugin_name) == ASSET_PATH \o <<Seg(plugin_name)>>

BaselineFolder(plugin_name) ==
    DIRECTORY \o <<BASELINE_FOLDERNAME, PLATFORM, Seg(plugin_name)>>

OutputFolder(plugin_name, generate_baseline) ==
    IF generate_baseline
    THEN DIRECTORY \o <<OUTPUT_FOLDERNAME, BASELINE_FOLDERNAME, PLATFORM, Seg(plugin_name)>>
    ELSE DIRECTORY \o <<OUTPUT_FOLDERNAME, PLATFORM, Seg(plugin_name)>>

RelativeRoot(plugin_name, test_file) ==
    Relpath(Dirname(test_file), InputFolder(plugin_name))

OutputPathFolder(plugin_name, test_file, generate_baseline) ==
    OutputFolder(plugin_name, generate_baseline) \o RelativeRoot(plugin_name, test_file)

OutputPath(plugin_name, test_file, generate_baseline) ==
    OutputPathFolder(plugin_name, test_file, generate_baseline)
        \o <<Stem(Basename(test_file)) \o RENDER_OUTPUT_FORMAT>>

\* line 190
BaselinePath(plugin_name, test_file) ==
    BaselineFolder(plugin_name) \o RelativeRoot(plugin_name, test_file)
        \o <<Stem(Basename(test_file)) \o RENDER_OUTPUT_FORMAT>>

\* lines 197-199
ConvertedPath(plugin_name, test_file, generate_baseline) ==
    OutputPathFolder(plugin_name, test_file, generate_baseline)
        \o <<Stem(Basename(test_file)) \o CONVERTED_SUFFIX \o Ext(Basename(test_file))>>

ConvertedOutputPath(plugin_name, test_file, generate_baseline) ==
    OutputPathFolder(plugin_name, test_file, generate_baseline)
        \o <<Stem(Basename(test_file)) \o CONVERTED_SUFFIX \o RENDER_OUTPUT_FORMAT>>

\* line 205: built from output_path_folder, like converted_output_path
ConvertedBaselineOutputPath(plugin_name, test_file, generate_baseline) ==
    OutputPathFolder(plugin_name, test_file, generate_baseline)
        \o <<Stem(Basename(test_file)) \o CONVERTED_SUFFIX \o RENDER_OUTPUT_FORMAT>>

\* the return value of process_file, or "ValueError" when line 46 raises
Returning(w, ret) == [fs |-> w.fs, log |-> w.log, ret |-> ret]

ReturnOf(v, error) ==
    IF v.outcome = "ValueError" THEN "ValueError"
    ELSE IF ~ComparePasses(v) THEN error
    ELSE "Converted"

Compared(w, plugin_name, test_file, test_type, first, second, error) ==
    Returning(CompareLogged(w, plugin_name, test_file, test_type, first, second),
              ReturnOf(CompareAt(w, first, second), error))

\* process_file(plugin_name, test_file, generate_baseline, test_type), lines 162-208
\* lines 189-192 and 204-207: w is the world after the render
ComparedUnlessGenerating(w, plugin_name, test_file, generate_baseline, test_type,
                         first, second, error) ==
    IF ~generate_baseline
    THEN Compared(w, plugin_name, test_file, test_type, first, second, error)
    ELSE Returning(w, "Converted")

ProcessFile(w, plugin_name, test_file, generate_baseline, test_type) ==
    IF test_type = "basic"
    THEN ComparedUnlessGenerating(
             Render(w, test_file, OutputPath(plugin_name, test_file, generate_baseline)),
             plugin_name, test_file, generate_baseline, test_type,
             BaselinePath(plugin_name, test_file),
             OutputPath(plugin_name, test_file, generate_baseline),
             "Error with basic converted file")
    ELSE IF plugin_name = "sbsar"
    THEN Returning(w, "Skipped")
    ELSE ComparedUnlessGenerating(
             Render(Convert(w, test_file,
                            ConvertedPath(plugin_name, test_file, generate_baseline),
                            "process_file"),
                    ConvertedPath(plugin_name, test_file, generate_baseline),
                    ConvertedOutputPath(plugin_name, test_file, generate_baseline)),
             plugin_name, test_file, generate_baseline, test_type,
             ConvertedBaselineOutputPath(plugin_name, test_file, generate_baseline),
             ConvertedOutputPath(plugin_name, test_file, generate_baseline),
             "Error with roundtrip converted file")

IsError(ret) ==
    ret \in {"Error with basic converted file", "Error with roundtrip converted file"}

-----------------------------------------------------------------------------
(* Asset selection: lines 217-236 and 262-285                               *)

Plugins == <<"fbx", "gltf", "obj", "ply", "sbsar", "stl">>

file_formats(plugin_name) ==
    CASE plugin_name = "fbx"   -> <<Seg(".fbx")>>
      [] plugin_name = "gltf"  -> <<Seg(".gltf"), Seg(".glb")>>
      [] plugin_name = "obj"   -> <<Seg(".obj")>>
      [] plugin_name = "ply"   -> <<Seg(".ply")>>
      [] plugin_name = "sbsar" -> <<Seg(".usd")>>
      [] plugin_name = "stl"   -> <<Seg(".stl")>>

\* an entry point with its arguments: kind is "main_generate" (test.py
\* --generate_baseline), "main_verify" (test.py) or "pytest" (pytest run on
\* test.py, the only way --extensions reaches pytest_generate_tests: line 392
\* does not pass it on); list is argparse's nargs='+' list, str the string
\* conftest.py stores
Entry(kind, given, list, str) ==
    [kind |-> kind, given |-> given, list |-> list, str |-> str]

NoEntry == Entry("none", FALSE, <<>>, <<>>)

\* lines 227-228: the override replaces the family's extensions
GenerateExtensions(e, plugin_name) ==
    IF e.given THEN e.list ELSE file_formats(plugin_name)

\* lines 275-276: ext in file_filter, a substring test on the option string
PytestExtensions(e, plugin_name) ==
    IF e.kind = "pytest" /\ e.given
    THEN SelectSeq(file_formats(plugin_name), LAMBDA ext : Contains(e.str, ext))
    ELSE file_formats(plugin_name)

\* lines 234-236 and 281-283
SelectedFiles(f, plugin_name, extensions) ==
    {p \in Walk(f, InputFolder(plugin_name)) :
        \E i \in 1..Len(extensions) : EndsWith(Basename(p), extensions[i])}

Orders(S) ==
    {o \in [1..Cardinality(S) -> S] : \A i, j \in 1..Cardinality(S) : o[i] = o[j] => i = j}

GenerateResultsFile(plugin_name) == BaselineFolder(plugin_name) \o <<RESULTS_NAME>>

PytestResultsFile(plugin_name) == OutputFolder(plugin_name, FALSE) \o <<RESULTS_NAME>>

-----------------------------------------------------------------------------
(* The tests: lines 293-358                                                 *)

Verdict(test, plugin_name, filename, outcome, checked, r) ==
    [test |-> test, plugin |-> plugin_name, file |-> filename,
     outcome |-> outcome, checked |-> checked, result |-> r]

PlainResult ==
    [filename |-> <<>>, pass |-> FALSE, warnings |-> <<>>, errors |-> <<>>]

Judged(w, v) == [fs |-> w.fs, log |-> [w.log EXCEPT !.verdicts = @ \cup {v}]]

\* test_asset_rendering(plugin_name, filename): "pass", "fail" (the assert of
\* line 307) or "error" (the ValueError of line 46 leaves the test)
RenderingOutcome(ret) ==
    IF ret = "ValueError" THEN "error" ELSE IF IsError(ret) THEN "fail" ELSE "pass"

RenderingJudged(done, plugin_name, filename) ==
    Judged(done, Verdict("test_asset_rendering", plugin_name, filename,
                         RenderingOutcome(done.ret), FALSE, PlainResult))

\* the loop of line 305 goes on to "roundtrip" only when "basic" neither
\* raised nor failed the assert
AfterBasic(basic, plugin_name, filename) ==
    IF RenderingOutcome(basic.ret) # "pass"
    THEN RenderingJudged(basic, plugin_name, filename)
    ELSE RenderingJudged(ProcessFile(basic, plugin_name, filename, FALSE, "roundtrip"),
                         plugin_name, filename)

TestAssetRenderingOn(w, plugin_name, filename) ==
    AfterBasic(ProcessFile(w, plugin_name, filename, FALSE, "basic"),
               plugin_name, filename)

FirstWhere(lines, P(_)) ==
    LET hits == {i \in 1..Len(lines) : P(lines[i])}
    IN  IF hits = {} THEN 0 ELSE CHOOSE i \in hits : \A j \in hits : i <= j

\* lines 338-358: the outcome of the comparison with the baseline document
\* lines 344-358 on the decoded lines: not_a_record and found are the first
\* line that is no record and the first record with the filename looked for
Gate(lines, results, not_a_record, found) ==
    IF not_a_record # 0 /\ (found = 0 \/ not_a_record < found)
    THEN "error"                                        \* res['filename']: TypeError
    ELSE IF found = 0 THEN "pass"                       \* no baseline: return
    ELSE IF Len(results.errors) <= Len(lines[found].v.errors)
    THEN "pass" ELSE "fail"

BaselineGate(baseline_doc, results, input_path) ==
    IF ~baseline_doc.exists THEN "error"                \* FileNotFoundError
    ELSE IF \E i \in 1..Len(baseline_doc.lines) : ~JsonLoadsLine(baseline_doc.lines[i])
    THEN "pass"                                         \* JSONDecodeError: return
    ELSE Gate(baseline_doc.lines, results,
              FirstWhere(baseline_doc.lines, LAMBDA l : l.t # "record"),
              FirstWhere(baseline_doc.lines,
                         LAMBDA l : l.t = "record" /\ l.v.filename = PathStr(input_path)))

\* test_usd_checker(plugin_name, filename)
\* lines 326-332
InputPath(plugin_name, filename) == JoinAbsolute(InputFolder(plugin_name), filename)

UsdcheckedPath(plugin_name, filename) ==
    JoinAbsolute(OutputFolder(plugin_name, FALSE),
                 Dirname(filename) \o <<Stem(Basename(filename)) \o USDCHECKED_SUFFIX>>)

\* lines 337-358: checked is the world after run_usdchecker
CheckerJudged(checked, plugin_name, filename) ==
    Judged(checked,
           Verdict("test_usd_checker", plugin_name, filename,
                   BaselineGate(DocAt(checked.fs, GenerateResultsFile(plugin_name)),
                                LastResult(checked),
                                InputPath(plugin_name, filename)),
                   TRUE, LastResult(checked)))

\* lines 334-335: converted is the world after convert, ok what it returned
AfterConvert(converted, ok, plugin_name, filename) ==
    IF ~ok
    THEN Judged(converted, Verdict("test_usd_checker", plugin_name, filename,
                                   "pass", FALSE, PlainResult))
    ELSE CheckerJudged(RunUsdcheckerOn(converted, plugin_name,
                                       UsdcheckedPath(plugin_name, filename),
                                       PytestResultsFile(plugin_name)),
                       plugin_name, filename)

\* test_usd_checker(plugin_name, filename)
TestUsdCheckerOn(w, plugin_name, filename) ==
    IF plugin_name = "sbsar"
    THEN Judged(w, Verdict("test_usd_checker", plugin_name, filename,
                           "pass", FALSE, PlainResult))
    ELSE AfterConvert(Convert(w, InputPath(plugin_name, filename),
                              UsdcheckedPath(plugin_name, filename),
                              "test_usd_checker"),
                      ConvertReturns(w, InputPath(plugin_name, filename)),
                      plugin_name, filename)

-----------------------------------------------------------------------------
(* cleanup and zip_files: lines 244-255 and 361-375                         *)

KeepExtensions == <<Seg(".jpg"), Seg(".json")>>

Matches(path, extensions) ==
    \E i \in 1..Len(extensions) : EndsWith(Basename(path), extensions[i])

\* cleanup(path, extensions)
CleanupOn(w, path, extensions) ==
    LET doomed == {p \in Walk(w.fs, path) : ~Matches(p, extensions)}
    IN  [fs |-> [p \in DOMAIN w.fs \ doomed |-> w.fs[p]],
         log |-> [w.log EXCEPT
                    !.removed = @ \cup {[path |-> p, by |-> "cleanup"] : p \in doomed},
                    !.events = Append(@, [ev |-> "cleanup", what |-> path])]]

\* zip_files(directory, extensions, zip_file_name): the archive is written
\* in the working directory
ZipOn(w, directory, extensions, zip_file_name) ==
    [fs |-> Put(w.fs, <<zip_file_name>>, OtherFile("zip")),
     log |-> [w.log EXCEPT !.events = Append(@, [ev |-> "zip", what |-> directory])]]

-----------------------------------------------------------------------------
(* The variables of a specification that another specification leaves idle  *)

NoResult == [filename |-> <<>>, pass |-> FALSE, warnings |-> <<>>,
             errors |-> <<>>, returned |-> FALSE]

Returned(r) == r @@ [returned |-> TRUE]

InitTodo == [fam |-> 0, files |-> {}, collected |-> 0, tests |-> <<>>,
             rendering |-> <<>>, checker |-> <<>>]

IdleChecker ==
    /\ stdout_str = <<>> /\ stderr_str = <<>>
    /\ results_doc = NoFile
    /\ result = NoResult

IdleCompare ==
    /\ img1 = NoImage /\ img2 = NoImage
    /\ similarity_threshold = DefaultThreshold
    /\ verdict = NoVerdict

IdleHarness ==
    /\ fs = <<>> /\ entry = NoEntry /\ pc = "idle" /\ todo = InitTodo /\ log = EmptyLog

-----------------------------------------------------------------------------
(* Specification Spec: runs of the entry points over one asset tree         *)

\* the order of the steps of an entry point: lines 386-395 (and, for a
\* pytest run, collection before the tests)
MainStepCleanupFirst(kind, at) ==
    CASE kind = "main_generate" /\ at = "start"    -> "cleanup"
      [] kind = "main_generate" /\ at = "cleanup"  -> "generate"
      [] kind = "main_generate" /\ at = "generate" -> "zip"
      [] kind = "main_generate" /\ at = "zip"      -> "done"
      [] OTHER                                     -> "collect"

MainStep(kind, at) ==
    CASE kind = "main_generate" /\ at = "start"    -> "generate"
      [] kind = "main_generate" /\ at = "generate" -> "cleanup"
      [] kind = "main_generate" /\ at = "cleanup"  -> "zip"
      [] kind = "main_generate" /\ at = "zip"      -> "done"
      [] OTHER                                     -> "collect"

Entries ==
    { Entry("main_generate", FALSE, <<>>, <<>>),
      Entry("main_generate", TRUE, <<Seg(".fbx")>>, <<>>),
      Entry("main_generate", TRUE, <<Seg(".usd")>>, <<>>),
      Entry("main_verify", FALSE, <<>>, <<>>),
      Entry("pytest", FALSE, <<>>, <<>>),
      Entry("pytest", TRUE, <<>>, <<".fbx", ",", ".gltf">>),
      Entry("pytest", TRUE, <<>>, <<".fbx", "z">>) }

\* the images usdrecord draws in this tree
ImageA == UniformImage(<<1, 1, 3>>, 0)
ImageB == UniformImage(<<1, 1, 3>>, 1)

CleanOut == <<TotalTime, NL, SuccessTok, CR, NL>>
WarnOut == <<TotalTime, NL, UpAxisMsg, NL, SuccessTok, NL>>
ErrorOut == <<TotalTime, NL, "x", NL, FailedTok, NL>>

AssetA == InputFolder("fbx") \o <<<<"a", ".fbx">>>>
LeftoverA == InputFolder("fbx") \o <<<<"a", "_usdchecked", ".usd">>>>
AssetB == InputFolder("gltf") \o <<Seg("sub"), <<"b", ".glb">>>>
AssetG == InputFolder("gltf") \o <<<<"g", ".gltf">>>>
AssetD == InputFolder("sbsar") \o <<<<"d", ".usd">>>>
StrayNote == BaselineFolder("fbx") \o <<<<"notes", ".txt">>>>

\* what an earlier generate run left in baseline/<platform>/fbx, and an
\* earlier verify run in output/<platform>/fbx
StaleBaseline ==
    <<[filename |-> TruncatedFilename(AssetA), pass |-> FALSE,
       warnings |-> <<>>, errors |-> << <<"x">> >>]>>

StaleOutput ==
    <<[filename |-> TruncatedFilename(LeftoverA), pass |-> TRUE,
       warnings |-> <<>>, errors |-> <<>>]>>

DocStates == {"absent", "stale", "corrupt"}

WithDoc(f, path, doc_state, stale) ==
    IF doc_state = "absent" THEN f
    ELSE Put(f, path, DocFile(IF doc_state = "stale" THEN JsonDump(stale)
                              ELSE CorruptLines))

WithGolden(f, golden) ==
    IF golden = "absent" THEN f
    ELSE Put(f, BaselinePath("fbx", AssetA),
             ImageFile(IF golden = "same" THEN ImageA ELSE ImageB))

BaseTree(openable, out) ==
    (AssetA :> AssetFile(openable, IF openable THEN ImageA ELSE NoImage, out, <<>>))
    @@ (LeftoverA :> Content("usd", TRUE, ImageA, CleanOut, <<>>, <<>>))
    @@ (AssetB :> AssetFile(TRUE, ImageB, WarnOut, <<>>))
    @@ (AssetG :> AssetFile(TRUE, ImageB, CleanOut, <<>>))
    @@ (AssetD :> AssetFile(TRUE, ImageA, CleanOut, <<>>))
    @@ (BaselinePath("gltf", AssetB) :> ImageFile(ImageB))
    @@ (BaselinePath("gltf", AssetG) :> ImageFile(ImageB))
    @@ (BaselinePath("sbsar", AssetD) :> ImageFile(ImageA))
    @@ (StrayNote :> OtherFile("other"))

InitialTree(openable, out, golden, doc_state) ==
    WithDoc(WithDoc(WithGolden(BaseTree(openable, out), golden),
                    GenerateResultsFile("fbx"), doc_state, StaleBaseline),
            PytestResultsFile("fbx"), doc_state, StaleOutput)

Init ==
    /\ \E openable \in BOOLEAN, out \in {CleanOut, WarnOut, ErrorOut},
          golden \in {"same", "differs", "absent"}, doc_state \in DocStates :
            fs = InitialTree(openable, out, golden, doc_state)
    /\ entry = NoEntry
    /\ pc = "done"
    /\ todo = InitTodo
    /\ log = EmptyLog
    /\ IdleChecker
    /\ IdleCompare

World == [fs |-> fs, log |-> log]

RunsStarted == Len(log.history) + (IF entry = NoEntry THEN 0 ELSE 1)

\* the entry point is started: lines 378-387, 391-392
Main ==
    /\ pc = "done"
    /\ RunsStarted < MaxRuns
    /\ \E e \in Entries :
        /\ entry' = e
        /\ pc' = MainStep(e.kind, "start")
    /\ todo' = InitTodo
    /\ log' = [EmptyLog EXCEPT
                 !.history = IF entry = NoEntry THEN <<>> ELSE Append(log.history, entry)]
    /\ UNCHANGED <<fs, checkerVars, compareVars>>

AfterGenerateLoop(t) ==
    IF t.fam = Len(Plugins) /\ t.files = {} THEN MainStep(entry.kind, "generate")
    ELSE "generate"

\* generate_baseline_function, lines 226-232: the next family is begun
GenerateFamily ==
    /\ pc = "generate"
    /\ todo.files = {}
    /\ todo.fam < Len(Plugins)
    /\ LET plugin_name == Plugins[todo.fam + 1]
           results_file == GenerateResultsFile(plugin_name)
           files == SelectedFiles(fs, plugin_name, GenerateExtensions(entry, plugin_name))
           t == [todo EXCEPT !.fam = @ + 1, !.files = files]
       IN  /\ fs' = RemoveIfExists(fs, results_file)
           /\ log' = [log EXCEPT
                        !.removed = IF fs' # fs
                                    THEN @ \cup {[path |-> results_file, by |-> "os.remove"]}
                                    ELSE @,
                        !.selected = @ \cup {<<plugin_name, p>> : p \in files}]
           /\ todo' = t
           /\ pc' = AfterGenerateLoop(t)
    /\ UNCHANGED <<entry, checkerVars, compareVars>>

\* lines 240-241
CheckedUnlessSbsar(w, plugin_name, full_file_path) ==
    IF plugin_name # "sbsar"
    THEN RunUsdcheckerOn(w, plugin_name, full_file_path, GenerateResultsFile(plugin_name))
    ELSE [fs |-> w.fs, log |-> w.log]

\* lines 238-241
GenerateAssetOn(w, plugin_name, full_file_path) ==
    CheckedUnlessSbsar(
        ProcessFile(ProcessFile(w, plugin_name, full_file_path, TRUE, "basic"),
                    plugin_name, full_file_path, TRUE, "roundtrip"),
        plugin_name, full_file_path)

GeneratedInto(w, full_file_path) ==
    /\ fs' = w.fs
    /\ log' = [w.log EXCEPT
                 !.events = Append(@, [ev |-> "processed", what |-> full_file_path])]

Advanced(t) ==
    /\ todo' = t
    /\ pc' = AfterGenerateLoop(t)

\* generate_baseline_function, lines 236-241: one asset of the family
GenerateAsset ==
    /\ pc = "generate"
    /\ \E full_file_path \in todo.files :
        /\ GeneratedInto(GenerateAssetOn(World, Plugins[todo.fam], full_file_path),
                         full_file_path)
        /\ Advanced([todo EXCEPT !.files = @ \ {full_file_path}])
    /\ UNCHANGED <<entry, checkerVars, compareVars>>

Becomes(w) == fs' = w.fs /\ log' = w.log

\* line 388
Cleanup ==
    /\ pc = "cleanup"
    /\ Becomes(CleanupOn(World, DIRECTORY \o <<BASELINE_FOLDERNAME>>, KeepExtensions))
    /\ pc' = MainStep(entry.kind, "cleanup")
    /\ UNCHANGED <<entry, todo, checkerVars, compareVars>>

\* line 389
ZipBaseline ==
    /\ pc = "zip"
    /\ Becomes(ZipOn(World, DIRECTORY \o <<BASELINE_FOLDERNAME, PLATFORM>>,
                     <<Seg(".jpg")>>, PLATFORM \o <<"_baseline_images", ".zip">>))
    /\ pc' = MainStep(entry.kind, "zip")
    /\ UNCHANGED <<entry, todo, checkerVars, compareVars>>

NextTestPc(t) ==
    IF t.collected < 2 THEN "collect"
    ELSE IF t.rendering # <<>> THEN "rendering"
    ELSE IF t.checker # <<>> THEN "checker"
    ELSE "exit"

RECURSIVE RemoveAll(_, _)
RemoveAll(f, paths) ==
    IF paths = <<>> THEN f ELSE RemoveAll(RemoveIfExists(f, Head(paths)), Tail(paths))

\* the sequences tests_to_run can be: the families in the order of
\* file_formats, each family's files in the order os.walk lists them
RECURSIVE TestsToRun(_, _, _)
TestsToRun(f, e, i) ==
    IF i > Len(Plugins) THEN {<<>>}
    ELSE {[k \in 1..Len(o) |-> <<Plugins[i], o[k]>>] \o rest :
            o \in Orders(SelectedFiles(f, Plugins[i], PytestExtensions(e, Plugins[i]))),
            rest \in TestsToRun(f, e, i + 1)}

\* pytest_generate_tests(metafunc), lines 258-290; called once for each of
\* the two test functions, before any test runs; os.walk lists an unchanged
\* folder in the same order both times
PytestGenerateTests ==
    /\ pc = "collect"
    /\ LET results_files == [i \in 1..Len(Plugins) |-> PytestResultsFile(Plugins[i])]
       IN  /\ fs' = RemoveAll(fs, results_files)
           /\ \E tests_to_run \in TestsToRun(fs, entry, 1) :
                LET tests == IF todo.collected = 0 THEN tests_to_run ELSE todo.tests
                    t == [todo EXCEPT
                            !.collected = @ + 1,
                            !.tests = tests,
                            !.rendering = IF todo.collected = 0 THEN tests ELSE @,
                            !.checker = IF todo.collected = 1 THEN tests ELSE @]
                IN  /\ tests_to_run = tests
                    /\ todo' = t
                    /\ pc' = NextTestPc(t)
                    /\ log' = [log EXCEPT
                                 !.removed = @ \cup
                                     {[path |-> results_files[i], by |-> "os.remove"] :
                                         i \in {j \in 1..Len(Plugins) :
                                                  Exists(fs, results_files[j])}},
                                 !.selected = @ \cup
                                     {tests[k] : k \in 1..Len(tests)}]
    /\ UNCHANGED <<entry, checkerVars, compareVars>>

TestsLeft(t) == todo' = t /\ pc' = NextTestPc(t)

\* one parametrized test_asset_rendering
TestAssetRendering ==
    /\ pc = "rendering"
    /\ Becomes(TestAssetRenderingOn(World, Head(todo.rendering)[1],
                                    Head(todo.rendering)[2]))
    /\ TestsLeft([todo EXCEPT !.rendering = Tail(@)])
    /\ UNCHANGED <<entry, checkerVars, compareVars>>

\* one parametrized test_usd_checker
TestUsdChecker ==
    /\ pc = "checker"
    /\ Becomes(TestUsdCheckerOn(World, Head(todo.checker)[1], Head(todo.checker)[2]))
    /\ TestsLeft([todo EXCEPT !.checker = Tail(@)])
    /\ UNCHANGED <<entry, checkerVars, compareVars>>

\* pytest's exit code: 0 when no test failed or raised
ExitCode(l) == IF \A v \in l.verdicts : v.outcome = "pass" THEN 0 ELSE 1

\* the end of the test session; lines 393-395 when test.py started it
Exit ==
    /\ pc = "exit"
    /\ Becomes(IF entry.kind = "main_verify" /\ ExitCode(log) = 0
               THEN ZipOn(World, DIRECTORY \o <<OUTPUT_FOLDERNAME, PLATFORM>>,
                          <<RESULTS_NAME>>,
                          PLATFORM \o <<"_usd_checker_results", ".zip">>)
               ELSE World)
    /\ pc' = "done"
    /\ UNCHANGED <<entry, todo, checkerVars, compareVars>>

Next ==
    \/ Main
    \/ GenerateFamily
    \/ GenerateAsset
    \/ Cleanup
    \/ ZipBaseline
    \/ PytestGenerateTests
    \/ TestAssetRendering
    \/ TestUsdChecker
    \/ Exit

Spec == Init /\ [][Next]_vars

-----------------------------------------------------------------------------
(* Specification SpecChecker: run_usdchecker on every bounded output        *)

OutTokens == {NL, CR, SuccessTok, FailedTok, TotalTime, WriteLayer, UpAxisMsg, "x"}

StdoutChoices == SeqsUpTo(OutTokens, MaxOutLen)

StderrChoices ==
    { <<>>,
      <<MetersMsg, NL>>,
      <<"x", UpAxisMsg, "y", NL, "z">>,
      <<"x", NL, TotalTime, NL>> }

\* the file handed to the validator in the stand-alone specification
CheckedFile == << <<"repo">>, <<"test">>, <<"assets">>, <<"fbx">>, <<"a", ".fbx">> >>

StaleResult ==
    [filename |-> <<"old">>, pass |-> FALSE,
     warnings |-> << <<UpAxisMsg>> >>, errors |-> << <<"x">>, <<"y">> >>]

DocChoices == {NoFile, FileOf(CorruptLines), FileOf(JsonDump(<<StaleResult>>))}

InitChecker ==
    /\ stdout_str \in StdoutChoices
    /\ stderr_str \in StderrChoices
    /\ results_doc \in DocChoices
    /\ result = NoResult
    /\ IdleCompare
    /\ IdleHarness

\* run_usdchecker(file, results_file), lines 77-143
RunUsdchecker ==
    /\ ~result.returned
    /\ LET r == DiagnosticResult(CheckedFile, stdout_str, stderr_str)
       IN  /\ result' = Returned(r)
           /\ results_doc' = AppendResult(results_doc, r)
    /\ UNCHANGED <<stdout_str, stderr_str, compareVars, harnessVars>>

NextChecker == RunUsdchecker

SpecChecker == InitChecker /\ [][NextChecker]_vars


-----------------------------------------------------------------------------
(* Specification SpecCompare: the comparator on every bounded image pair    *)

PixelValues == {0, 1}

Shapes ==
    {<<h, w, 3>> : <<h, w>> \in {hw \in (1..MaxPixels) \X (1..MaxPixels) :
                                    hw[1] * hw[2] <= MaxPixels}}

AllImages == UNION {{Image(sh, d) : d \in [Positions(sh) -> PixelValues]} : sh \in Shapes}

UniformImages == {UniformImage(sh, v) : sh \in Shapes, v \in PixelValues}

Thresholds == {DefaultThreshold, <<99991, 100000>>, <<1, 2>>, <<1, 1>>}

\* two 100 x 100 x 3 images differing in one channel of one pixel
ScenarioImage1 == UniformImage(<<100, 100, 3>>, 0)
ScenarioImage2 ==
    Image(<<100, 100, 3>>,
          [p \in Positions(<<100, 100, 3>>) |-> IF p = <<1, 1, 1>> THEN 1 ELSE 0])

InitCompare ==
    /\ \/ /\ img1 \in UniformImages \cup {NoImage}
          /\ img2 \in AllImages \cup {NoImage}
          /\ similarity_threshold \in Thresholds
       \/ /\ img1 = ScenarioImage1
          /\ img2 = ScenarioImage2
          /\ similarity_threshold \in {DefaultThreshold, <<99991, 100000>>}
    /\ verdict = NoVerdict
    /\ IdleChecker
    /\ IdleHarness

Compare ==
    /\ verdict.outcome = "none"
    /\ verdict' = CompareImages(img1, img2, similarity_threshold)
    /\ UNCHANGED <<img1, img2, similarity_threshold, checkerVars, harnessVars>>

NextCompare == Compare

SpecCompare == InitCompare /\ [][NextCompare]_vars


-----------------------------------------------------------------------------
(* Properties of compare_images_with_similarity_threshold (SpecCompare)     *)

Pixels(shape) == (1..shape[1]) \X (1..shape[2])

\* the pixels of which every channel agrees
MatchingPixels(a, b) ==
    {px \in Pixels(a.shape) :
        \A c \in Channels : a.data[<<px[1], px[2], c>>] = b.data[<<px[1], px[2], c>>]}

\* the channel values that differ
DifferingValues(a, b) == {p \in Positions(a.shape) : a.data[p] # b.data[p]}

\* C1, as stated: for two readable images of the same shape the ratio is
\* (pixels of which every channel matches) / (pixels), and the comparison
\* passes exactly when that ratio reaches the threshold.
C1_RatioCountsWholePixels ==
    verdict.outcome = "compared" =>
        /\ verdict.similar_pixels * Cardinality(Pixels(img1.shape))
              = Cardinality(MatchingPixels(img1, img2)) * verdict.total_pixels
        /\ verdict.pass <=>
              RatioGeq(Cardinality(MatchingPixels(img1, img2)),
                       Cardinality(Pixels(img1.shape)),
                       similarity_threshold[1], similarity_threshold[2])

\* C1, as amended: for two readable images of the same shape the ratio is
\* (channel values that match) / (height * width * channels), so a pixel that
\* differs in one channel out of three still adds two matching values, and
\* the comparison passes exactly when that ratio reaches the threshold.
C1_RatioCountsChannelValues ==
    verdict.outcome = "compared" =>
        /\ verdict.total_pixels = Cardinality(Positions(img1.shape))
        /\ verdict.similar_pixels
              = Cardinality(Positions(img1.shape)) - Cardinality(DifferingValues(img1, img2))
        /\ verdict.pass <=>
              RatioGeq(Cardinality(Positions(img1.shape))
                           - Cardinality(DifferingValues(img1, img2)),
                       Cardinality(Positions(img1.shape)),
                       similarity_threshold[1], similarity_threshold[2])

\* the 100 x 100 x 3 scenario, compared at threshold 0.99991: 29999 of
\* 30000 values match and the comparison passes
C1_Witness ==
    /\ verdict.outcome = "compared"
    /\ img1.shape = <<100, 100, 3>>
    /\ Cardinality(DifferingValues(img1, img2)) = 1
    /\ similarity_threshold = <<99991, 100000>>
    /\ verdict.similar_pixels = 29999
    /\ verdict.total_pixels = 30000
    /\ verdict.pass

-----------------------------------------------------------------------------
(* Properties of run_usdchecker (SpecChecker)                               *)

MentionsBenign(line) ==
    \E i \in 1..Len(line) : line[i] \in {UpAxisMsg, MetersMsg}

Elements(seq) == {seq[i] : i \in 1..Len(seq)}

\* C4, as stated: no line that matches an allowlisted benign message is in
\* the warnings list or in the errors list of the result.
C4_BenignLinesDropped ==
    result.returned =>
        \A line \in Elements(result.warnings) \cup Elements(result.errors) :
            ~MentionsBenign(line)

\* C4, as amended: no line that matches an allowlisted benign message is in
\* the errors list of the result; every such line of the parsed output is
\* in the warnings list, which holds nothing else.
C4_BenignLinesAreWarnings ==
    result.returned =>
        /\ \A line \in Elements(result.errors) : ~MentionsBenign(line)
        /\ \A line \in Elements(result.warnings) : MentionsBenign(line)
        /\ \A line \in Elements(Split(TruncateStdout(stdout_str) \o stderr_str)) :
              MentionsBenign(line) => line \in Elements(result.warnings)

C4_Witness ==
    /\ result.returned
    /\ Len(result.warnings) = 2
    /\ <<UpAxisMsg>> \in Elements(result.warnings)
    /\ result.errors # <<>>

\* the first line of the output that holds the marker, 0 when none does
MarkerLine(out, marker) ==
    FirstWhere(Split(out), LAMBDA line : \E i \in 1..Len(line) : line[i] = marker)

ChosenLine(out) ==
    IF MarkerLine(out, TotalTime) # 0 THEN MarkerLine(out, TotalTime)
    ELSE MarkerLine(out, WriteLayer)

LinesAfter(out, k) == Join(SubSeq(Split(out), k + 1, Len(Split(out))), NL)

\* the lists the result would hold if the output were cut down to kept
ListsOf(kept, err) == Classified(<<>>, KeptLines(kept \o err))

SameLists(r, expected) ==
    r.warnings = expected.warnings /\ r.errors = expected.errors

\* C10, as stated: whenever a line holds "Total time:" (or else "Write layer
\* via Sdf API:") that line and every line before it are discarded, so no
\* line at or before it reaches the lists; with no marker all is kept.
C10_MarkerLineAlwaysDiscarded ==
    result.returned =>
        SameLists(result,
                  ListsOf(IF ChosenLine(stdout_str) = 0 THEN stdout_str
                          ELSE LinesAfter(stdout_str, ChosenLine(stdout_str)),
                          stderr_str))

\* C10, as amended: the cut happens only when a newline follows the marker
\* found; then the output is cut after the line of the first "Total time:",
\* or, when the output holds no "Total time:" at all, after the line of the
\* first "Write layer via Sdf API:", and no line at or before that line
\* reaches the lists. When neither marker is present, or the marker found
\* is on the last line with no newline after it, the output is kept whole.
C10_TerminatedMarkerLineDiscarded ==
    result.returned =>
        SameLists(result,
                  ListsOf(IF \/ ChosenLine(stdout_str) = 0
                             \/ ChosenLine(stdout_str) = Len(Split(stdout_str))
                          THEN stdout_str
                          ELSE LinesAfter(stdout_str, ChosenLine(stdout_str)),
                          stderr_str))

\* a line before the marker line, the marker line ended by a newline, and
\* lines after it that reach the lists
C10_Witness ==
    /\ result.returned
    /\ stdout_str = <<"x", NL, TotalTime, NL>>
    /\ stderr_str = <<MetersMsg, NL>>
    /\ result.warnings = << <<MetersMsg>> >>
    /\ result.errors = <<>>

\* a line that is blank, a success or failure sentinel, or carries an
\* allowlisted benign message
IsQuietLine(line) == InList(line, filter_out_strings) \/ MentionsBenign(line)

\* the validator's two streams as line 114 joins them, before any cut
QuietOutput ==
    \A line \in Elements(Split(stdout_str \o stderr_str)) : IsQuietLine(line)

\* C11: pass is true exactly when the errors list of the result is empty;
\* output made only of blank lines, success or failure sentinels and
\* allowlisted benign messages gives pass = true and errors = [].
C11_PassIffNoErrors ==
    result.returned =>
        /\ result.pass <=> (result.errors = <<>>)
        /\ QuietOutput => (result.pass /\ result.errors = <<>>)

\* a blank line, a failure sentinel and a benign message: the result passes
\* with no errors and the message as its one warning
C11_Witness ==
    /\ result.returned
    /\ stdout_str = <<NL, FailedTok, CR, NL>>
    /\ stderr_str = <<MetersMsg, NL>>
    /\ QuietOutput
    /\ result.pass
    /\ result.errors = <<>>
    /\ result.warnings = << <<MetersMsg>> >>


-----------------------------------------------------------------------------
(* Properties of the runs (Spec)                                            *)

NonSbsar == {Plugins[i] : i \in {j \in 1..Len(Plugins) : Plugins[j] # "sbsar"}}

VerifyRun == entry.kind \in {"main_verify", "pytest"}

FirstIndex(S) == CHOOSE i \in S : \A j \in S : i <= j

\* the entries of a results document as json.load gives them (none when the
\* document is missing)
EntriesAt(f, path) == ExistingResults(DocAt(f, path))

\* the baseline entries whose filename is that of the current result
BaselineMatches(plugin_name, r) ==
    {i \in 1..Len(EntriesAt(fs, GenerateResultsFile(plugin_name))) :
        EntriesAt(fs, GenerateResultsFile(plugin_name))[i].filename = r.filename}

\* C2: in verify mode, for a non-sbsar asset that converts and whose current
\* result has the filename of an entry of the baseline document written by
\* generate mode, test_usd_checker fails exactly when the current result has
\* more errors than that entry.
C2_ErrorGateDecides ==
    \A v \in log.verdicts :
        (v.test = "test_usd_checker" /\ v.checked
            /\ BaselineMatches(v.plugin, v.result) # {}) =>
        (v.outcome = "fail" <=>
            Len(v.result.errors) >
            Len(EntriesAt(fs, GenerateResultsFile(v.plugin))
                    [FirstIndex(BaselineMatches(v.plugin, v.result))].errors))

NoOverride(e) == ~e.given

ChecksOf(plugin_name) == SelectSeq(log.checks, LAMBDA c : c.plugin = plugin_name)

ResultsOf(checks) == [i \in 1..Len(checks) |-> checks[i].result]

\* C3: after a generate run and then a verify run over the same tree, every
\* asset checked in the verify run has a DiagnosticResult identical to the
\* entry generate mode stored for it, and every test passed.
C3_VerifyReproducesBaseline ==
    (/\ pc = "done"
     /\ VerifyRun /\ NoOverride(entry)
     /\ Len(log.history) = 1
     /\ log.history[1].kind = "main_generate" /\ NoOverride(log.history[1])) =>
        /\ \A t \in log.selected :
              t[1] \in NonSbsar =>
                \E i \in 1..Len(EntriesAt(fs, GenerateResultsFile(t[1]))) :
                    /\ EntriesAt(fs, GenerateResultsFile(t[1]))[i].filename
                          = TruncatedFilename(t[2])
                    /\ \E k \in 1..Len(log.checks) :
                          /\ log.checks[k].plugin = t[1]
                          /\ log.checks[k].result
                                = EntriesAt(fs, GenerateResultsFile(t[1]))[i]
        /\ \A v \in log.verdicts : v.outcome = "pass"

\* C5: in verify mode the two paths handed to the comparator are never the
\* same file, and the first lies under baseline/<platform>/<family>.
C5_ComparedAgainstBaseline ==
    \A c \in log.compares :
        /\ c.first # c.second
        /\ IsUnder(c.first, BaselineFolder(c.plugin))

\* C6: when convert fails in the roundtrip pass, the re-exported path is not
\* rendered and no image comparison is made for that asset.
C6_FailedConvertAbortsRoundtrip ==
    \A cv \in log.converts :
        (cv.caller = "process_file" /\ ~cv.ok) =>
            /\ \A r \in log.renders : r.src # cv.dst
            /\ \A c \in log.compares : ~(c.file = cv.src /\ c.test_type = "roundtrip")

OverrideNames(e) ==
    IF e.kind = "main_generate" THEN Elements(e.list)
    ELSE Elements(SplitOn(e.str, ","))

Overridden(e) == e.given /\ e.kind # "main_verify"

\* C7: every asset selected for a family has a name ending in one of the
\* family's own extensions, and under an override in one that the override
\* names too.
C7_SelectionWithinFamily ==
    \A t \in log.selected :
        \E i \in 1..Len(file_formats(t[1])) :
            /\ EndsWith(Basename(t[2]), file_formats(t[1])[i])
            /\ Overridden(entry) => file_formats(t[1])[i] \in OverrideNames(entry)

EventsAt(ev) == {i \in 1..Len(log.events) : log.events[i].ev = ev}

\* every file generate mode selects in this tree, with its family
AllSelectedForGenerate ==
    UNION {{<<Plugins[i], p>> :
                p \in SelectedFiles(fs, Plugins[i], GenerateExtensions(entry, Plugins[i]))} :
           i \in 1..Len(Plugins)}

\* both renders of the asset were run, and for a family other than sbsar
\* its validator result is in the family's document
ArtifactsWritten(t) ==
    /\ [src |-> t[2], out |-> OutputPath(t[1], t[2], TRUE)] \in log.renders
    /\ t[1] # "sbsar" =>
          /\ [src |-> ConvertedPath(t[1], t[2], TRUE),
              out |-> ConvertedOutputPath(t[1], t[2], TRUE)] \in log.renders
          /\ \E i \in 1..Len(EntriesAt(fs, GenerateResultsFile(t[1]))) :
                EntriesAt(fs, GenerateResultsFile(t[1]))[i].filename
                    = TruncatedFilename(t[2])

\* C8: the prune runs only in generate mode, once, after every asset of
\* every family has been processed and before the archive step; in verify
\* mode no file under the baseline root is deleted.
C8_PruneOnlyAfterGenerate ==
    /\ \A i \in EventsAt("cleanup") :
          /\ entry.kind = "main_generate"
          /\ \A j \in 1..(i - 1) : log.events[j].ev = "processed"
          /\ {log.events[j].what : j \in 1..(i - 1)}
                = {t[2] : t \in AllSelectedForGenerate}
          /\ \A t \in AllSelectedForGenerate : ArtifactsWritten(t)
          /\ \A j \in (i + 1)..Len(log.events) : log.events[j].ev = "zip"
    /\ Cardinality(EventsAt("cleanup")) <= 1
    /\ \A z \in EventsAt("zip") :
          entry.kind = "main_generate" => \E i \in EventsAt("cleanup") : i < z
    /\ VerifyRun =>
          \A r \in log.removed : ~IsUnder(r.path, DIRECTORY \o <<BASELINE_FOLDERNAME>>)

\* a generate run that pruned the stray file after processing and archived
C8_Witness ==
    /\ pc = "done"
    /\ entry.kind = "main_generate"
    /\ [path |-> StrayNote, by |-> "cleanup"] \in log.removed
    /\ ~Exists(fs, StrayNote)
    /\ Cardinality(EventsAt("processed")) >= 4
    /\ EventsAt("zip") # {}

ResultsFileOf(e, plugin_name) ==
    IF e.kind = "main_generate" THEN GenerateResultsFile(plugin_name)
    ELSE PytestResultsFile(plugin_name)

\* the run has reached the family: its results document was removed
FamilyBegun(plugin_name) ==
    IF entry.kind = "main_generate"
    THEN \E i \in 1..todo.fam : Plugins[i] = plugin_name
    ELSE VerifyRun /\ (todo.collected >= 1 \/ pc \in {"exit", "done"})

\* C9: from the moment a run has begun a family other than sbsar, the
\* family's results document holds exactly the DiagnosticResults of the
\* checks the run has made for it so far, in the order they were made,
\* whatever it held before the run (no document when no check was made).
C9_OneEntryPerCheck ==
    \A plugin_name \in NonSbsar :
        FamilyBegun(plugin_name) =>
            IF ChecksOf(plugin_name) = <<>>
            THEN ~Exists(fs, ResultsFileOf(entry, plugin_name))
            ELSE /\ Exists(fs, ResultsFileOf(entry, plugin_name))
                 /\ JsonLoad(fs[ResultsFileOf(entry, plugin_name)].lines).ok
                 /\ JsonLoad(fs[ResultsFileOf(entry, plugin_name)].lines).value
                       = ResultsOf(ChecksOf(plugin_name))

\* a finished run that removed the document an earlier run left for fbx and
\* wrote two entries for gltf, in the order of its two checks
C9_Witness ==
    /\ pc = "done"
    /\ \E r \in log.removed : r.by = "os.remove"
    /\ Len(ChecksOf("fbx")) = 1
    /\ Len(ChecksOf("gltf")) = 2
    /\ Len(EntriesAt(fs, ResultsFileOf(entry, "gltf"))) = 2
    /\ EntriesAt(fs, ResultsFileOf(entry, "gltf"))[2] = ChecksOf("gltf")[2].result
    /\ ChecksOf("gltf")[1].result # ChecksOf("gltf")[2].result

=============================================================================
